---- MODULE Spec2Model ----
(***************************************************************************)
(* A model of download_drivers.py: the ChromeDriver and GeckoDriver flows  *)
(* (construct, then download = fetch, extract, [chmod], cleanup) over a    *)
(* model of the program directory, the host platform and the remote        *)
(* server.  Strings are TLA+ strings; str.format, "in", os.path.join and   *)
(* os.path.abspath are computed character by character.                    *)
(***************************************************************************)
EXTENDS Integers, Sequences, FiniteSets, TLC

VARIABLES
    os,        \* platform.system() of the host
    machine,   \* platform.uname()[4] of the host
    umask,     \* the process umask (decides the mode of a file zipfile creates)
    flow,      \* which class the caller uses: "chrome" or "gecko"
    token,     \* the version argument the caller passes to the constructor
    pc,        \* position of the caller in the flow
    error,     \* the exception that reached the caller ("none" while there is none)
    self,      \* the fields of the ChromeDriver / GeckoDriver object
    files,     \* the file system: path -> [mode, src, entries]
    gets,      \* the URLs handed to urlopen / urlretrieve so far, in order
    steps,     \* the steps started so far, in order, with the path each one used
    body,      \* the bytes the latest-release endpoint answered with
    extracted  \* the file system as it was when the extraction step returned

vars == <<os, machine, umask, flow, token, pc, error, self, files, gets, steps,
          body, extracted>>

(***************************************************************************)
(* Bounds of the model.                                                    *)
(***************************************************************************)
MaxEntries == 2

(***************************************************************************)
(* Strings.                                                                *)
(***************************************************************************)
Drop(s, n) == SubSeq(s, n + 1, Len(s))

Take(s, n) == SubSeq(s, 1, n)

StartsWith(s, p) == Len(p) <= Len(s) /\ Take(s, Len(p)) = p

EndsWith(s, p) == Len(p) <= Len(s) /\ Drop(s, Len(s) - Len(p)) = p

RECURSIVE FindFrom(_, _, _)
\* The first index from i on at which sub occurs in s, 0 if none.
FindFrom(sub, s, i) ==
    IF i + Len(sub) - 1 > Len(s) THEN 0
    ELSE IF SubSeq(s, i, i + Len(sub) - 1) = sub THEN i
    ELSE FindFrom(sub, s, i + 1)

\* str.find: the first index (from 1) at which sub occurs in s, 0 if none.
Find(sub, s) == FindFrom(sub, s, 1)

\* Python's "sub in s".
Contains(sub, s) == Find(sub, s) # 0

RECURSIVE Format(_, _)
\* str.format with positional "{}" fields: each field, left to right, is
\* replaced by the next argument; the arguments are inserted verbatim.
Format(template, args) ==
    LET i == Find("{}", template)
    IN IF i = 0 \/ args = <<>>
       THEN template
       ELSE Take(template, i - 1) \o Head(args)
                \o Format(Drop(template, i + 1), Tail(args))

RECURSIVE Replace(_, _, _)
\* str.replace for a one-character old.
Replace(s, old, new) ==
    LET i == Find(old, s)
    IN IF i = 0 THEN s ELSE Take(s, i - 1) \o new \o Replace(Drop(s, i), old, new)

RECURSIVE Split(_, _)
\* str.split(sep) for a one-character sep: the sequence of the pieces.
Split(s, sep) ==
    LET i == Find(sep, s)
    IN IF i = 0 THEN <<s>> ELSE <<Take(s, i - 1)>> \o Split(Drop(s, i), sep)

RECURSIVE Join(_, _)
\* sep.join(parts)
Join(parts, sep) ==
    IF parts = <<>> THEN ""
    ELSE IF Len(parts) = 1 THEN parts[1]
    ELSE parts[1] \o sep \o Join(Tail(parts), sep)

(***************************************************************************)
(* Permission bits.                                                        *)
(***************************************************************************)
RECURSIVE BitOr(_, _)
\* a | b
BitOr(a, b) ==
    IF a = 0 THEN b
    ELSE IF b = 0 THEN a
    ELSE (IF a % 2 = 1 \/ b % 2 = 1 THEN 1 ELSE 0) + 2 * BitOr(a \div 2, b \div 2)

RECURSIVE BitAndNot(_, _)
\* a & ~b
BitAndNot(a, b) ==
    IF a = 0 THEN 0
    ELSE (IF a % 2 = 1 /\ b % 2 = 0 THEN 1 ELSE 0) + 2 * BitAndNot(a \div 2, b \div 2)

\* stat.S_IXUSR, 0o100
S_IXUSR == 64

\* The mode of a file that open(path, "wb") creates: 0o666 & ~umask.
CreateMode == BitAndNot(438, umask)

(***************************************************************************)
(* os.path of the host: posixpath, or ntpath on Windows.                   *)
(***************************************************************************)
sep == IF os = "Windows" THEN "\\" ELSE "/"

RECURSIVE NormComps(_, _, _)
\* The loop of normpath over the components: "" and "." are dropped, ".."
\* removes the component before it (at the root it is dropped).
NormComps(comps, new_comps, rooted) ==
    IF comps = <<>> THEN new_comps
    ELSE LET comp == Head(comps)
             rest == Tail(comps)
         IN IF comp = "" \/ comp = "."
            THEN NormComps(rest, new_comps, rooted)
            ELSE IF comp # ".."
                    \/ (~rooted /\ new_comps = <<>>)
                    \/ (new_comps # <<>> /\ new_comps[Len(new_comps)] = "..")
            THEN NormComps(rest, Append(new_comps, comp), rooted)
            ELSE IF new_comps # <<>>
            THEN NormComps(rest, SubSeq(new_comps, 1, Len(new_comps) - 1), rooted)
            ELSE NormComps(rest, new_comps, rooted)

\* os.path.normpath
normpath(path) ==
    IF os = "Windows"
    THEN LET p == Replace(path, "/", "\\")
             hasDrive == Len(p) >= 2 /\ SubSeq(p, 2, 2) = ":"
             drive == IF hasDrive THEN Take(p, 2) ELSE ""
             tail == IF hasDrive THEN Drop(p, 2) ELSE p
             rooted == StartsWith(tail, "\\")
             root == IF rooted THEN "\\" ELSE ""
             out == drive \o root \o Join(NormComps(Split(tail, "\\"), <<>>, rooted), "\\")
         IN IF out = "" THEN "." ELSE out
    ELSE LET rooted == StartsWith(path, "/")
             initial_slashes ==
                 IF rooted /\ StartsWith(path, "//") /\ ~StartsWith(path, "///")
                 THEN "//" ELSE IF rooted THEN "/" ELSE ""
             out == initial_slashes \o Join(NormComps(Split(path, "/"), <<>>, rooted), "/")
         IN IF out = "" THEN "." ELSE out

\* os.path.isabs
isabs(path) ==
    IF os = "Windows"
    THEN LET p == Replace(path, "/", "\\")
         IN Len(p) >= 3 /\ SubSeq(p, 2, 3) = ":\\"
    ELSE StartsWith(path, "/")

\* os.path.join(a, b)
join(a, b) ==
    IF isabs(b) THEN b
    ELSE IF a = "" \/ EndsWith(a, sep) \/ (os = "Windows" /\ EndsWith(a, "/"))
    THEN a \o b
    ELSE a \o sep \o b

\* The directory the program file is in (an absolute, normalised path).
pwd == IF os = "Windows" THEN "C:\\utilities" ELSE "/opt/utilities"

\* os.path.abspath: normpath(join(os.getcwd(), path)); the working directory
\* is the program's directory here, and every path the program passes is
\* absolute already.
abspath(path) == normpath(join(pwd, path))

cdriver_latest_release_url == "https://chromedriver.storage.googleapis.com/LATEST_RELEASE"

cdriver_download_url == "https://chromedriver.storage.googleapis.com/{}/chromedriver_{}.zip"

gdriver_download_url == "https://github.com/mozilla/geckodriver/releases/download/v{}/geckodriver-v{}-{}"

(***************************************************************************)
(* The inputs: hosts, callers' arguments, and what the servers answer.     *)
(***************************************************************************)
\* The hosts: platform.system() and platform.uname()[4].
Hosts ==
    {[os |-> "Darwin", machine |-> "x86_64"], [os |-> "Darwin", machine |-> "arm64"],
     [os |-> "Linux", machine |-> "x86_64"], [os |-> "Linux", machine |-> "i686"],
     [os |-> "Windows", machine |-> "AMD64"], [os |-> "Windows", machine |-> "x86"],
     [os |-> "FreeBSD", machine |-> "amd64"]}

\* 0o022 and 0o077
Umasks == {18, 63}

\* 0o644 and 0o755
Modes == {420, 493}

ChromeTokens == {"LATEST_RELEASE", "latest", "78"}

GeckoTokens == {"0.26.0"}

\* Bodies of the latest-release endpoint: "78.0", "78.0" and a line feed,
\* and a byte that is no UTF-8.
Bodies == {<<55, 56, 46, 48>>, <<55, 56, 46, 48, 10>>, <<255>>}

VersionResponses ==
    {[status |-> "error", body |-> <<>>]}
        \cup {[status |-> "ok", body |-> b] : b \in Bodies}

EntryNames == {"chromedriver", "geckodriver", "LICENSE"}

Entries == [name : EntryNames, mode : Modes]

\* The member lists of an archive: at most MaxEntries members, no name twice.
EntryLists ==
    UNION {{e \in [1..n -> Entries] : \A i, j \in 1..n : i # j => e[i].name # e[j].name}
           : n \in 0..MaxEntries}

\* How the member numbered bad of an archive is damaged: "header", its
\* header is unreadable (ZIP: bad magic number of the local header; tar: bad
\* checksum); "data", its data is (ZIP: CRC mismatch; tar.gz: the stream ends
\* inside the data); "cut", the file ends before the member (ZIP: no central
\* directory left; tar.gz: the stream ends inside the header).
Damages == {"header", "data", "cut"}

\* What the archive URL answers with: a transport error; a body the transport
\* reports as cut short, ending inside its first member; or a complete
\* transfer of an archive, sound (bad = 0) or damaged at member bad.
ArchiveResponses ==
    {[status |-> "error", entries |-> <<>>, bad |-> 0, kind |-> "none"]}
        \cup {[status |-> "short", entries |-> e, bad |-> 1, kind |-> k]
              : e \in {l \in EntryLists : Len(l) = 1}, k \in {"data", "cut"}}
        \cup {[status |-> "ok", entries |-> e, bad |-> 0, kind |-> "none"]
              : e \in EntryLists}
        \cup UNION {{[status |-> "ok", entries |-> e, bad |-> b, kind |-> k]
                     : b \in 1..Len(e), k \in Damages}
                    : e \in EntryLists}

(***************************************************************************)
(* Utils                                                                   *)
(***************************************************************************)
NoFile == [mode |-> 0, src |-> "none", entries |-> <<>>, bad |-> 0, kind |-> "none"]

\* open(path, "wb") and the writes after it: a new file gets the creation
\* mode, an existing file is truncated and keeps its mode.
WriteFile(fs, path, src, entries, bad, kind) ==
    LET mode == IF path \in DOMAIN fs THEN fs[path].mode ELSE CreateMode
    IN [p \in DOMAIN fs \cup {path} |->
           IF p = path
           THEN [mode |-> mode, src |-> src, entries |-> entries, bad |-> bad,
                 kind |-> kind]
           ELSE fs[p]]

\* The characters http.client refuses in a request target, of those the
\* model's strings can hold.
UrlControlChars == {"\n", "\r", "\t", " "}

RECURSIVE UrlStrip(_)
\* urllib.request.Request strips the URL it is given: str(url).strip()
UrlStrip(url) ==
    IF url # "" /\ Take(url, 1) \in UrlControlChars THEN UrlStrip(Drop(url, 1))
    ELSE IF url # "" /\ Drop(url, Len(url) - 1) \in UrlControlChars
    THEN UrlStrip(Take(url, Len(url) - 1))
    ELSE url

\* http.client raises InvalidURL for such a URL when the request is put
\* together, before it connects: nothing is sent.
InvalidURL(url) ==
    LET u == UrlStrip(url)
    IN \E i \in 1..Len(u) : SubSeq(u, i, i) \in UrlControlChars

\* urllib.request.urlretrieve(url, filename)
urlretrieve(fs, url, filename, resp) ==
    IF InvalidURL(url)
    THEN [raised |-> "InvalidURL", fs |-> fs]
    ELSE IF resp.status = "error"
    THEN [raised |-> "URLError", fs |-> fs]
    ELSE IF resp.status = "short"
    THEN [raised |-> "ContentTooShortError",
          fs |-> WriteFile(fs, filename, "partial", resp.entries, resp.bad, resp.kind)]
    ELSE [raised |-> "none",
          fs |-> WriteFile(fs, filename, "fetched", resp.entries, resp.bad, resp.kind)]

download_file(fs, url, file, resp) ==
    urlretrieve(fs, url, abspath(join(pwd, file)), resp)

RECURSIVE ExtractMembers(_, _, _, _)
\* extractall over the members, in order.  zipfile writes each member with
\* open(target, "wb"); tarfile also sets the member's own mode.
ExtractMembers(fs, members, path, tar) ==
    IF members = <<>> THEN fs
    ELSE LET m == Head(members)
             target == normpath(join(path, m.name))
             written == WriteFile(fs, target, "extracted", <<>>, 0, "none")
             placed == IF tar
                       THEN [written EXCEPT ![target].mode = m.mode]
                       ELSE written
         IN ExtractMembers(placed, Tail(members), path, tar)

\* open(target, "wb") for the damaged member of archive a, when the
\* extraction routine gets that far before it raises.
OpenMember(fs, a, path, opens) ==
    IF opens
    THEN WriteFile(fs, normpath(join(path, a.entries[a.bad].name)), "extracted",
                   <<>>, 0, "none")
    ELSE fs

\* Opening the archive and extracting it.  A file that is no archive raises
\* at once.  Of a damaged archive the members before the damaged one are
\* extracted; then
\*   ZIP, "header": BadZipFile, the member's file untouched;
\*   ZIP, "data": the member's file is opened for writing, then BadZipFile;
\*   ZIP, "cut" (and a body cut short): BadZipFile on opening, nothing extracted;
\*   tar, "header": ReadError on opening if it is the first member, and
\*        otherwise the archive is taken to end there: no error;
\*   tar, "data": the member's file is opened for writing (its mode not set),
\*        then EOFError;
\*   tar, "cut": EOFError, the member's file untouched.
ExtractAll(fs, file, path, tar) ==
    IF file \notin DOMAIN fs
    THEN [raised |-> "FileNotFoundError", fs |-> fs]
    ELSE IF fs[file].src \notin {"fetched", "partial"}
    THEN [raised |-> IF tar THEN "ReadError" ELSE "BadZipFile", fs |-> fs]
    ELSE LET a == fs[file]
             sound == a.bad = 0
             \* raises on opening, before any member is read
             unopened == /\ ~sound
                         /\ IF tar
                            THEN a.kind = "header" /\ a.bad = 1
                            ELSE a.src = "partial" \/ a.kind = "cut"
             \* the members extracted in full
             n == IF sound THEN Len(a.entries) ELSE IF unopened THEN 0 ELSE a.bad - 1
             \* whether the damaged member's file is opened for writing
             opens == ~sound /\ ~unopened /\ a.kind = "data"
             raised == IF sound \/ (tar /\ a.kind = "header" /\ a.bad > 1) THEN "none"
                       ELSE IF ~tar THEN "BadZipFile"
                       ELSE IF unopened THEN "ReadError"
                       ELSE "EOFError"
         IN [raised |-> raised,
             fs |-> OpenMember(ExtractMembers(fs, SubSeq(a.entries, 1, n), path, tar),
                               a, path, opens)]

unzip(fs, file, path) == ExtractAll(fs, file, path, FALSE)

untar(fs, file, path) == ExtractAll(fs, file, path, TRUE)

\* A cleanup that reports success and removes nothing.
cleanup_keeps(fs, file) ==
    IF file \notin DOMAIN fs
    THEN [raised |-> "FileNotFoundError", fs |-> fs]
    ELSE [raised |-> "none", fs |-> fs]

\* os.remove(file)
cleanup(fs, file) ==
    IF file \notin DOMAIN fs
    THEN [raised |-> "FileNotFoundError", fs |-> fs]
    ELSE [raised |-> "none", fs |-> [p \in DOMAIN fs \ {file} |-> fs[p]]]

\* os.chmod(path, stat.S_IXUSR): the mode set to owner-execute alone.
chmod_only_xusr(fs, path) ==
    IF path \notin DOMAIN fs
    THEN [raised |-> "FileNotFoundError", fs |-> fs]
    ELSE [raised |-> "none", fs |-> [fs EXCEPT ![path].mode = S_IXUSR]]

\* os.chmod(path, os.stat(path).st_mode | stat.S_IXUSR)
chmod_add_xusr(fs, path) ==
    IF path \notin DOMAIN fs
    THEN [raised |-> "FileNotFoundError", fs |-> fs]
    ELSE [raised |-> "none",
          fs |-> [fs EXCEPT ![path].mode = BitOr(fs[path].mode, S_IXUSR)]]

(***************************************************************************)
(* bytes.decode(): UTF-8.  The bodies of the model hold ASCII bytes, which *)
(* decode to the character of the same code, and the byte 0xFF, which no   *)
(* UTF-8 text holds.                                                       *)
(***************************************************************************)
Chr(b) ==
    CASE b = 10 -> "\n"
      [] b = 32 -> " "
      [] b = 46 -> "."
      [] b = 48 -> "0"
      [] b = 55 -> "7"
      [] b = 56 -> "8"
      [] OTHER -> "?"

RECURSIVE DecodeAscii(_)
DecodeAscii(bytes) ==
    IF bytes = <<>> THEN "" ELSE Chr(Head(bytes)) \o DecodeAscii(Tail(bytes))

decode(bytes) ==
    IF \E i \in 1..Len(bytes) : bytes[i] >= 128
    THEN [raised |-> "UnicodeDecodeError", value |-> ""]
    ELSE [raised |-> "none", value |-> DecodeAscii(bytes)]

(***************************************************************************)
(* ChromeDriver                                                            *)
(***************************************************************************)
\* The URL get_version opens.
VersionUrl(version) ==
    IF version = "LATEST_RELEASE"
    THEN cdriver_latest_release_url
    ELSE cdriver_latest_release_url \o Format("_{}", <<version>>)

RECURSIVE Strip(_)
\* str.rstrip() over the white space of the bodies.
Strip(t) ==
    IF t # "" /\ Drop(t, Len(t) - 1) \in {"\n", " "}
    THEN Strip(Take(t, Len(t) - 1))
    ELSE t

\* A get_version that strips the body: r.read().decode().strip()
get_version_stripped(version, resp) ==
    IF InvalidURL(VersionUrl(version))
    THEN [raised |-> "InvalidURL", value |-> "", url |-> VersionUrl(version)]
    ELSE IF resp.status # "ok"
    THEN [raised |-> "URLError", value |-> "", url |-> VersionUrl(version)]
    ELSE LET d == decode(resp.body)
         IN [raised |-> d.raised, value |-> Strip(d.value), url |-> VersionUrl(version)]

\* get_version: urlopen(...), then r.read().decode()
get_version(version, resp) ==
    IF InvalidURL(VersionUrl(version))
    THEN [raised |-> "InvalidURL", value |-> "", url |-> VersionUrl(version)]
    ELSE IF resp.status # "ok"
    THEN [raised |-> "URLError", value |-> "", url |-> VersionUrl(version)]
    ELSE LET d == decode(resp.body)
         IN [raised |-> d.raised, value |-> d.value, url |-> VersionUrl(version)]

\* A Chrome URL builder that picks the 64-bit name on Windows.
get_cdriver_download_url_win64(version) ==
    IF os = "Darwin"
    THEN [raised |-> "none", value |-> Format(cdriver_download_url, <<version, "mac64">>)]
    ELSE IF os = "Linux"
    THEN [raised |-> "none", value |-> Format(cdriver_download_url, <<version, "linux64">>)]
    ELSE IF os = "Windows"
    THEN [raised |-> "none", value |-> Format(cdriver_download_url, <<version, "win64">>)]
    ELSE [raised |-> "NotImplementedError", value |-> ""]

\* A Chrome URL builder whose last branch is the Linux one instead of a raise.
get_cdriver_download_url_else_linux(version) ==
    IF os = "Darwin"
    THEN [raised |-> "none", value |-> Format(cdriver_download_url, <<version, "mac64">>)]
    ELSE IF os = "Windows"
    THEN [raised |-> "none", value |-> Format(cdriver_download_url, <<version, "win32">>)]
    ELSE [raised |-> "none", value |-> Format(cdriver_download_url, <<version, "linux64">>)]

get_cdriver_download_url(version) ==
    IF os = "Darwin"
    THEN [raised |-> "none", value |-> Format(cdriver_download_url, <<version, "mac64">>)]
    ELSE IF os = "Linux"
    THEN [raised |-> "none", value |-> Format(cdriver_download_url, <<version, "linux64">>)]
    ELSE IF os = "Windows"
    THEN [raised |-> "none", value |-> Format(cdriver_download_url, <<version, "win32">>)]
    ELSE [raised |-> "NotImplementedError", value |-> ""]

\* self.cdriver_path
cdriver_path == abspath(pwd \o "/chromedriver")

\* self.cdriver_zip_path
cdriver_zip_path == cdriver_path \o ".zip"

(***************************************************************************)
(* GeckoDriver                                                             *)
(***************************************************************************)
\* A Firefox URL builder that tests the architecture for equality with "x86_64".
get_gdriver_download_url_x86_64(version) ==
    LET gdriver_type ==
            IF os = "Darwin" THEN "macos.tar.gz"
            ELSE IF os = "Linux"
            THEN (IF machine = "x86_64" THEN "linux64.tar.gz" ELSE "linux32.tar.gz")
            ELSE IF os = "Windows"
            THEN (IF machine = "x86_64" THEN "win64.zip" ELSE "win32.zip")
            ELSE ""
    IN IF os \in {"Darwin", "Linux", "Windows"}
       THEN [raised |-> "none",
             value |-> Format(gdriver_download_url, <<version, version, gdriver_type>>)]
       ELSE [raised |-> "NotImplementedError", value |-> ""]

get_gdriver_download_url(version) ==
    LET gdriver_type ==
            IF os = "Darwin" THEN "macos.tar.gz"
            ELSE IF os = "Linux"
            THEN (IF Contains("64", machine) THEN "linux64.tar.gz" ELSE "linux32.tar.gz")
            ELSE IF os = "Windows"
            THEN (IF Contains("64", machine) THEN "win64.zip" ELSE "win32.zip")
            ELSE ""
    IN IF os \in {"Darwin", "Linux", "Windows"}
       THEN [raised |-> "none",
             value |-> Format(gdriver_download_url, <<version, version, gdriver_type>>)]
       ELSE [raised |-> "NotImplementedError", value |-> ""]

\* self.gdriver_path
gdriver_path == abspath(pwd \o "/geckodriver")

\* self.gdriver_tar_gz_path
gdriver_tar_gz_path == gdriver_path \o ".tar.gz"

\* self.gdriver_zip_path
gdriver_zip_path == gdriver_path \o ".zip"

\* A test that takes the tar.gz branch on Linux alone.
GeckoUsesZipUnlessLinux == ~(os = "Linux")

\* The test of download_geckodriver: the ZIP branch or the tar.gz branch.
GeckoUsesZip == os = "Windows"

(***************************************************************************)
(* The state machine.                                                      *)
(***************************************************************************)
NoSelf == [version |-> "", url |-> "", path |-> "", zip_path |-> "", tar_gz_path |-> ""]

\* One entry of the log of steps: the call, the path it was given, how it ended.
Step(op, path, raised) == [op |-> op, path |-> path, raised |-> raised]

\* The directory before the run: empty, or holding a driver of an earlier run.
StaleDirs ==
    LET driver == IF flow = "chrome" THEN cdriver_path ELSE gdriver_path
    IN {[p \in {} |-> NoFile]}
           \cup {[p \in {driver} |-> [mode |-> m, src |-> "stale", entries |-> <<>>, bad |-> 0,
                                  kind |-> "none"]]
                 : m \in Modes}

Init ==
    /\ \E h \in Hosts : os = h.os /\ machine = h.machine
    /\ umask \in Umasks
    /\ flow \in {"chrome", "gecko"}
    /\ token \in IF flow = "chrome" THEN ChromeTokens ELSE GeckoTokens
    /\ pc = "new"
    /\ error = "none"
    /\ self = NoSelf
    /\ files \in StaleDirs
    /\ gets = <<>>
    /\ steps = <<>>
    /\ body = <<>>
    /\ extracted = files

\* A step that raised ends the flow; one that returned moves it on.
Outcome(raised, next) ==
    /\ pc' = IF raised = "none" THEN next ELSE "failed"
    /\ error' = raised

\* ChromeDriver(token)
ChromeInit ==
    /\ pc = "new" /\ flow = "chrome"
    /\ \E resp \in VersionResponses :
          LET v == get_version(token, resp)
              u == get_cdriver_download_url(v.value)
          IN /\ gets' = Append(gets, v.url)
             /\ body' = resp.body
             /\ IF v.raised # "none"
                THEN /\ Outcome(v.raised, "constructed")
                     /\ steps' = Append(steps, Step("get_version", "", v.raised))
                     /\ self' = self
                ELSE IF u.raised # "none"
                THEN /\ Outcome(u.raised, "constructed")
                     /\ steps' = steps \o <<Step("get_version", "", "none"),
                                            Step("get_cdriver_download_url", "", u.raised)>>
                     /\ self' = [self EXCEPT !.version = v.value]
                ELSE /\ Outcome("none", "constructed")
                     /\ steps' = steps \o <<Step("get_version", "", "none"),
                                            Step("get_cdriver_download_url", "", u.raised)>>
                     /\ self' = [version |-> v.value, url |-> u.value,
                                 path |-> cdriver_path, zip_path |-> cdriver_zip_path,
                                 tar_gz_path |-> ""]
    /\ UNCHANGED <<os, machine, umask, flow, token, files, extracted>>

\* download_chromedriver, line 69
ChromeFetch ==
    /\ pc = "constructed" /\ flow = "chrome"
    /\ \E resp \in ArchiveResponses :
          LET r == download_file(files, self.url, "chromedriver.zip", resp)
          IN /\ files' = r.fs
             /\ Outcome(r.raised, "fetched")
             /\ steps' = Append(steps, Step("download_file",
                                            abspath(join(pwd, "chromedriver.zip")), r.raised))
    /\ gets' = Append(gets, self.url)
    /\ UNCHANGED <<os, machine, umask, flow, token, self, body, extracted>>

\* An unzip step in a try/finally that removes the archive when unzip raises.
ChromeUnzipFinally ==
    /\ pc = "fetched" /\ flow = "chrome"
    /\ LET r == unzip(files, self.zip_path, pwd)
       IN /\ files' = IF r.raised = "none" THEN r.fs ELSE cleanup(r.fs, self.zip_path).fs
          /\ extracted' = IF r.raised = "none" THEN r.fs ELSE extracted
          /\ Outcome(r.raised, "extracted")
          /\ steps' = Append(steps, Step("unzip", self.zip_path, r.raised))
    /\ UNCHANGED <<os, machine, umask, flow, token, self, gets, body>>

\* download_chromedriver, line 70
ChromeUnzip ==
    /\ pc = "fetched" /\ flow = "chrome"
    /\ LET r == unzip(files, self.zip_path, pwd)
       IN /\ files' = r.fs
          /\ extracted' = IF r.raised = "none" THEN r.fs ELSE extracted
          /\ Outcome(r.raised, "extracted")
          /\ steps' = Append(steps, Step("unzip", self.zip_path, r.raised))
    /\ UNCHANGED <<os, machine, umask, flow, token, self, gets, body>>

\* download_chromedriver, lines 71-72
ChromeChmod ==
    /\ pc = "extracted" /\ flow = "chrome"
    /\ ~(os = "Windows")
    /\ LET r == chmod_add_xusr(files, self.path)
       IN /\ files' = r.fs
          /\ Outcome(r.raised, "chmodded")
          /\ steps' = Append(steps, Step("chmod", self.path, r.raised))
    /\ UNCHANGED <<os, machine, umask, flow, token, self, gets, body, extracted>>

\* download_chromedriver, line 73
ChromeCleanup ==
    /\ flow = "chrome"
    /\ pc = IF os = "Windows" THEN "extracted" ELSE "chmodded"
    /\ LET r == cleanup(files, self.zip_path)
       IN /\ files' = r.fs
          /\ Outcome(r.raised, "done")
          /\ steps' = Append(steps, Step("cleanup", self.zip_path, r.raised))
    /\ UNCHANGED <<os, machine, umask, flow, token, self, gets, body, extracted>>

\* A GeckoDriver constructor that asks the server for the version, as
\* ChromeDriver does.
GeckoInitResolving ==
    /\ pc = "new" /\ flow = "gecko"
    /\ LET u == get_gdriver_download_url(token)
       IN /\ Outcome(u.raised, "constructed")
          /\ self' = IF u.raised # "none"
                     THEN [self EXCEPT !.version = token]
                     ELSE [version |-> token, url |-> u.value,
                           path |-> gdriver_path, zip_path |-> gdriver_zip_path,
                           tar_gz_path |-> gdriver_tar_gz_path]
          /\ steps' = Append(steps, Step("get_gdriver_download_url", "", u.raised))
    /\ gets' = Append(gets, VersionUrl(token))
    /\ UNCHANGED <<os, machine, umask, flow, token, files, body, extracted>>

\* GeckoDriver(token)
GeckoInit ==
    /\ pc = "new" /\ flow = "gecko"
    /\ LET u == get_gdriver_download_url(token)
       IN /\ Outcome(u.raised, "constructed")
          /\ self' = IF u.raised # "none"
                     THEN [self EXCEPT !.version = token]
                     ELSE [version |-> token, url |-> u.value,
                           path |-> gdriver_path, zip_path |-> gdriver_zip_path,
                           tar_gz_path |-> gdriver_tar_gz_path]
          /\ steps' = Append(steps, Step("get_gdriver_download_url", "", u.raised))
    /\ UNCHANGED <<os, machine, umask, flow, token, files, gets, body, extracted>>

\* download_geckodriver, lines 116 and 120
GeckoFetch ==
    /\ pc = "constructed" /\ flow = "gecko"
    /\ LET file == IF GeckoUsesZip THEN "geckodriver.zip" ELSE "geckodriver.tar.gz"
       IN /\ \E resp \in ArchiveResponses :
                LET r == download_file(files, self.url, file, resp)
                IN /\ files' = r.fs
                   /\ Outcome(r.raised, "fetched")
                   /\ steps' = Append(steps, Step("download_file",
                                                  abspath(join(pwd, file)), r.raised))
    /\ gets' = Append(gets, self.url)
    /\ UNCHANGED <<os, machine, umask, flow, token, self, body, extracted>>

\* download_geckodriver, lines 117 and 121
GeckoExtract ==
    /\ pc = "fetched" /\ flow = "gecko"
    /\ LET r == IF GeckoUsesZip
                THEN unzip(files, self.zip_path, pwd)
                ELSE untar(files, self.tar_gz_path, pwd)
       IN /\ files' = r.fs
          /\ extracted' = IF r.raised = "none" THEN r.fs ELSE extracted
          /\ Outcome(r.raised, "extracted")
          /\ steps' = Append(steps, IF GeckoUsesZip
                                    THEN Step("unzip", self.zip_path, r.raised)
                                    ELSE Step("untar", self.tar_gz_path, r.raised))
    /\ UNCHANGED <<os, machine, umask, flow, token, self, gets, body>>

\* download_geckodriver, lines 118 and 122
GeckoCleanup ==
    /\ pc = "extracted" /\ flow = "gecko"
    /\ LET file == IF GeckoUsesZip THEN self.zip_path ELSE self.tar_gz_path
       IN /\ LET r == cleanup(files, file)
             IN /\ files' = r.fs
                /\ Outcome(r.raised, "done")
                /\ steps' = Append(steps, Step("cleanup", file, r.raised))
    /\ UNCHANGED <<os, machine, umask, flow, token, self, gets, body, extracted>>

Next ==
    \/ ChromeInit
    \/ ChromeFetch
    \/ ChromeUnzip
    \/ ChromeChmod
    \/ ChromeCleanup
    \/ GeckoInit
    \/ GeckoFetch
    \/ GeckoExtract
    \/ GeckoCleanup

Spec == Init /\ [][Next]_vars

(***************************************************************************)
(* Vocabulary of the properties.                                           *)
(***************************************************************************)
Supported == {"Darwin", "Linux", "Windows"}

ConstructOps == {"get_version", "get_cdriver_download_url", "get_gdriver_download_url"}

ExtractOps == {"unzip", "untar"}

Ops(seq) == [i \in 1..Len(seq) |-> seq[i].op]

IsDownloadStep(st) == st.op \notin ConstructOps

\* The steps of the download action, in the order they started.
DownloadSteps == SelectSeq(steps, IsDownloadStep)

\* The archive file the flow is documented to use on this host.
ArchiveName ==
    IF flow = "chrome" THEN "chromedriver.zip"
    ELSE IF os = "Windows" THEN "geckodriver.zip" ELSE "geckodriver.tar.gz"

InPwd(name) == pwd \o sep \o name

DriverPath == InPwd(IF flow = "chrome" THEN "chromedriver" ELSE "geckodriver")

\* The steps a run without failure takes, construction included.
FullRun ==
    IF flow = "chrome"
    THEN <<"get_version", "get_cdriver_download_url", "download_file", "unzip">>
             \o (IF os = "Windows" THEN <<>> ELSE <<"chmod">>) \o <<"cleanup">>
    ELSE <<"get_gdriver_download_url", "download_file",
           IF os = "Windows" THEN "unzip" ELSE "untar", "cleanup">>

IsPrefix(a, b) == Len(a) <= Len(b) /\ SubSeq(b, 1, Len(a)) = a

\* The extraction step has returned without error.
ExtractionReturned ==
    \E i \in 1..Len(steps) : steps[i].op \in ExtractOps /\ steps[i].raised = "none"

\* The download action has ended, by returning or by raising.
Ended == pc \in {"done", "failed"}

NoFileWritten == \A p \in DOMAIN files : files[p].src = "stale"

Bit(m, k) == (m \div (2 ^ k)) % 2

PermBits == 0..11

\* The code of a character of the bodies.
AsciiCode(c) ==
    CASE c = "\n" -> 10
      [] c = " " -> 32
      [] c = "." -> 46
      [] c = "0" -> 48
      [] c = "7" -> 55
      [] c = "8" -> 56
      [] OTHER -> 0

SampleVersions == {"78.0.3904.70", "0.26.0", "{}", ""}

ChromeSuffix(o) ==
    CASE o = "Darwin" -> "mac64" [] o = "Linux" -> "linux64" [] o = "Windows" -> "win32"

ChromeUrl(o, v) ==
    "https://chromedriver.storage.googleapis.com/" \o v \o "/chromedriver_"
        \o ChromeSuffix(o) \o ".zip"

\* Whether the architecture string holds "64", listed by hand.
Has64(m) == m \in {"x86_64", "AMD64", "amd64", "arm64", "aarch64", "ia64", "ppc64le"}

GeckoSuffix(o, m) ==
    CASE o = "Darwin" -> "macos.tar.gz"
      [] o = "Linux" -> (IF Has64(m) THEN "linux64.tar.gz" ELSE "linux32.tar.gz")
      [] o = "Windows" -> (IF Has64(m) THEN "win64.zip" ELSE "win32.zip")

GeckoUrl(o, m, v) ==
    "https://github.com/mozilla/geckodriver/releases/download/v" \o v
        \o "/geckodriver-v" \o v \o "-" \o GeckoSuffix(o, m)

(***************************************************************************)
(* C1.  When the download action has returned, the archive the fetch step  *)
(* wrote is gone and every member of it is in the directory; the steps ran *)
(* in the order fetch, extract, chmod (Chrome, not Windows), cleanup; and  *)
(* fetch, extract and cleanup all used the one archive path.               *)
(***************************************************************************)
C1_ArchiveGoneEntriesKept ==
    pc = "done" =>
        LET d == DownloadSteps
            n == Len(d)
        IN /\ Ops(d) = (IF flow = "chrome"
                        THEN <<"download_file", "unzip">>
                                 \o (IF os = "Windows" THEN <<>> ELSE <<"chmod">>)
                                 \o <<"cleanup">>
                        ELSE <<"download_file",
                               IF os = "Windows" THEN "unzip" ELSE "untar", "cleanup">>)
           /\ d[1].path = InPwd(ArchiveName)
           /\ d[2].path = d[1].path
           /\ d[n].path = d[1].path
           /\ d[1].path \notin DOMAIN files
           /\ d[1].path \in DOMAIN extracted
           /\ LET a == extracted[d[1].path]
              IN \A i \in 1..Len(a.entries) :
                    \* the members the extraction routine found
                    (a.bad = 0 \/ i < a.bad) =>
                        LET q == InPwd(a.entries[i].name)
                        IN q \in DOMAIN files /\ files[q].src = "extracted"

C1_Witness ==
    /\ pc = "done" /\ flow = "chrome" /\ os = "Linux"
    /\ Len(steps) = 6
    /\ InPwd("LICENSE") \in DOMAIN files
    /\ InPwd("chromedriver") \in DOMAIN files

(***************************************************************************)
(* C2.  Once extraction has returned without error, the archive is gone    *)
(* when the download action ends, whatever members the archive had.        *)
(***************************************************************************)
C2_ArchiveAlwaysDeleted ==
    (Ended /\ ExtractionReturned) => InPwd(ArchiveName) \notin DOMAIN files

(***************************************************************************)
(* C3.  On Darwin, Linux and Windows the Chrome URL builder does not raise *)
(* and returns the template with the version and mac64, linux64 or win32,  *)
(* a different suffix for each; the URL ends in .zip and is the same for   *)
(* every architecture.                                                     *)
(***************************************************************************)
C3_ChromeUrl ==
    /\ \A a, b \in Supported : a # b => ChromeSuffix(a) # ChromeSuffix(b)
    /\ (os \in Supported /\ pc = "new") =>
           \A v \in SampleVersions :
               get_cdriver_download_url(v) = [raised |-> "none", value |-> ChromeUrl(os, v)]
    /\ (flow = "chrome" /\ os \in Supported /\ Len(steps) >= 2) =>
           /\ steps[2].op = "get_cdriver_download_url"
           /\ steps[2].raised = "none"
           /\ self.url = ChromeUrl(os, self.version)
           /\ EndsWith(self.url, ".zip")

C3_Witness ==
    /\ flow = "chrome" /\ os = "Windows" /\ machine = "AMD64"
    /\ pc = "constructed"
    /\ self.url = "https://chromedriver.storage.googleapis.com/78.0/chromedriver_win32.zip"

(***************************************************************************)
(* C4.  The Firefox URL builder returns the template with the version in   *)
(* both places and the suffix: macos.tar.gz on Darwin; linux64.tar.gz or   *)
(* linux32.tar.gz on Linux and win64.zip or win32.zip on Windows, the      *)
(* 64-bit one exactly when the architecture string holds "64".             *)
(***************************************************************************)
C4_GeckoUrl ==
    /\ (os \in Supported /\ pc = "new") =>
           \A v \in SampleVersions :
               get_gdriver_download_url(v)
                   = [raised |-> "none", value |-> GeckoUrl(os, machine, v)]
    /\ (flow = "gecko" /\ os \in Supported /\ Len(steps) >= 1) =>
           /\ steps[1].raised = "none"
           /\ self.url = GeckoUrl(os, machine, token)

C4_Witness ==
    /\ flow = "gecko" /\ os = "Linux" /\ machine = "i686"
    /\ pc = "constructed"
    /\ self.url = "https://github.com/mozilla/geckodriver/releases/download/v0.26.0/geckodriver-v0.26.0-linux32.tar.gz"

(***************************************************************************)
(* C5.  On any other OS both URL builders raise the unsupported-OS error   *)
(* and return no URL; construction fails, and the flow never downloads,    *)
(* extracts or writes a file.                                              *)
(***************************************************************************)
C5_UnsupportedOS ==
    os \notin Supported =>
        /\ \A v \in SampleVersions :
               /\ get_cdriver_download_url(v) = [raised |-> "NotImplementedError", value |-> ""]
               /\ get_gdriver_download_url(v) = [raised |-> "NotImplementedError", value |-> ""]
        /\ pc \in {"new", "failed"}
        /\ (pc = "failed" /\ steps[Len(steps)].op # "get_version")
               => error = "NotImplementedError"
        /\ self.url = ""
        /\ DownloadSteps = <<>>
        /\ NoFileWritten
        /\ \A i \in 1..Len(gets) : gets[i] = VersionUrl(token)

C5_Witness ==
    /\ os = "FreeBSD" /\ flow = "chrome" /\ pc = "failed"
    /\ error = "NotImplementedError"
    /\ Len(steps) = 2

(***************************************************************************)
(* C6, as stated.  Version resolution issues one GET and returns the body  *)
(* as it is; the token "latest" is sent to the latest-release endpoint     *)
(* itself, every other token T to the endpoint followed by "_" and T.      *)
(***************************************************************************)
C6_SentinelIsLatest ==
    (flow = "chrome" /\ pc # "new") =>
        gets[1] = (IF token = "latest"
                   THEN cdriver_latest_release_url
                   ELSE cdriver_latest_release_url \o "_" \o token)

(***************************************************************************)
(* C6, amended.  Version resolution issues one GET and returns the body,   *)
(* decoded, with every character kept; the token "LATEST_RELEASE" is sent  *)
(* to the latest-release endpoint itself, every other token T ("latest"    *)
(* too) to the endpoint followed by "_" and T.                             *)
(***************************************************************************)
C6_SentinelIsLatestRelease ==
    (flow = "chrome" /\ pc # "new") =>
        /\ gets[1] = (IF token = "LATEST_RELEASE"
                      THEN "https://chromedriver.storage.googleapis.com/LATEST_RELEASE"
                      ELSE "https://chromedriver.storage.googleapis.com/LATEST_RELEASE_"
                               \o token)
        /\ (DownloadSteps = <<>>) => Len(gets) = 1
        /\ steps[1].op = "get_version"
        /\ steps[1].raised = "none" =>
               /\ Len(self.version) = Len(body)
               /\ \A i \in 1..Len(body) :
                     AsciiCode(SubSeq(self.version, i, i)) = body[i]

C6_Witness ==
    /\ flow = "chrome" /\ token = "latest" /\ pc = "constructed"
    /\ gets = <<"https://chromedriver.storage.googleapis.com/LATEST_RELEASE_latest">>
    /\ body = <<55, 56, 46, 48, 10>>
    /\ self.version = "78.0\n"

(***************************************************************************)
(* C7.  After a Chrome download that returned on a host that is not        *)
(* Windows, the driver file has the bits it had when extraction returned   *)
(* and owner-execute, and no other file's bits changed; the Chrome flow on *)
(* Windows and the Firefox flow change no file's bits after extraction.    *)
(***************************************************************************)
C7_OwnerExecuteAdded ==
    pc = "done" =>
        IF flow = "chrome" /\ os # "Windows"
        THEN /\ DriverPath \in DOMAIN files
             /\ DriverPath \in DOMAIN extracted
             /\ \A k \in PermBits :
                   Bit(files[DriverPath].mode, k)
                       = IF k = 6 THEN 1 ELSE Bit(extracted[DriverPath].mode, k)
             /\ \A p \in DOMAIN files \ {DriverPath} :
                   files[p].mode = extracted[p].mode
        ELSE /\ \A i \in 1..Len(steps) : steps[i].op # "chmod"
             /\ \A p \in DOMAIN files : files[p].mode = extracted[p].mode

C7_Witness ==
    /\ pc = "done" /\ flow = "chrome" /\ os = "Darwin"
    /\ DriverPath \in DOMAIN extracted
    /\ extracted[DriverPath].src = "extracted"
    /\ extracted[DriverPath].mode = 384
    /\ files[DriverPath].mode = 448

(***************************************************************************)
(* C8.  A step that raises is the last step of the flow: no step follows   *)
(* it and no step runs twice, and the error is what the caller gets.  When *)
(* extraction raises, the archive, the files that were there before and    *)
(* the members extraction had reached are still in the directory.          *)
(***************************************************************************)
C8_FailureAborts ==
    /\ \A i \in 1..(Len(steps) - 1) : steps[i].raised = "none"
    /\ \A i, j \in 1..Len(steps) : i # j => steps[i].op # steps[j].op
    /\ IsPrefix(Ops(steps), FullRun)
    /\ (pc = "failed") = (steps # <<>> /\ steps[Len(steps)].raised # "none")
    /\ pc = "failed" => error = steps[Len(steps)].raised
    /\ pc # "failed" => error = "none"
    /\ (pc = "failed" /\ steps[Len(steps)].op \in ExtractOps) =>
           LET a == steps[Len(steps)].path
           IN /\ a = InPwd(ArchiveName)
              /\ a \in DOMAIN files
              /\ files[a].bad >= 1
              /\ steps[Len(steps) - 1].op = "download_file"
              /\ DOMAIN extracted \subseteq DOMAIN files
              /\ LET f == files[a]
                     \* the members extraction had reached when it raised
                     reached == IF steps[Len(steps)].op = "unzip" /\ f.kind = "cut"
                                THEN 0
                                ELSE IF f.kind = "data" THEN f.bad ELSE f.bad - 1
                 IN \A i \in 1..reached :
                       LET q == InPwd(f.entries[i].name)
                       IN q \in DOMAIN files /\ files[q].src = "extracted"

C8_Witness ==
    /\ pc = "failed" /\ flow = "chrome" /\ error = "BadZipFile"
    /\ InPwd("chromedriver.zip") \in DOMAIN files
    /\ files[InPwd("chromedriver.zip")].bad = 2
    /\ files[InPwd("chromedriver.zip")].kind = "data"
    /\ InPwd("LICENSE") \in DOMAIN files
    /\ InPwd("chromedriver") \in DOMAIN files
    /\ Len(steps) = 4

(***************************************************************************)
(* C9.  Construction resolves the version and builds the URL and neither   *)
(* downloads nor writes a file.  A Chrome run that returned has issued two *)
(* GETs, the latest-release endpoint and then the archive URL; a Firefox   *)
(* run one, the archive URL, built from the caller's version as given.     *)
(***************************************************************************)
C9_GetsPerRun ==
    /\ pc = "constructed" =>
           /\ NoFileWritten
           /\ DownloadSteps = <<>>
           /\ self.url # ""
           /\ IF flow = "chrome"
              THEN Len(gets) = 1 /\ StartsWith(gets[1], cdriver_latest_release_url)
              ELSE gets = <<>> /\ self.version = token
    /\ pc = "done" =>
           IF flow = "chrome"
           THEN /\ Len(gets) = 2
                /\ StartsWith(gets[1], cdriver_latest_release_url)
                /\ gets[2] = self.url
                /\ gets[2] = ChromeUrl(os, self.version)
           ELSE /\ gets = <<self.url>>
                /\ self.version = token
                /\ gets[1] = GeckoUrl(os, machine, token)

C9_Witness ==
    /\ pc = "done" /\ flow = "chrome" /\ token = "78"
    /\ gets = <<"https://chromedriver.storage.googleapis.com/LATEST_RELEASE_78",
                "https://chromedriver.storage.googleapis.com/78.0/chromedriver_linux64.zip">>

(***************************************************************************)
(* C10.  In the Firefox flow the file name and the extraction routine of   *)
(* download_geckodriver agree with the URL of get_gdriver_download_url: a  *)
(* .zip URL is saved as geckodriver.zip and unzipped, a .tar.gz URL is     *)
(* saved as geckodriver.tar.gz and untarred.                               *)
(***************************************************************************)
C10_GeckoKindsAgree ==
    (flow = "gecko" /\ self.url # "") =>
        /\ EndsWith(self.url, ".zip") # EndsWith(self.url, ".tar.gz")
        /\ \A i \in 1..Len(steps) :
              /\ steps[i].op \in {"download_file", "unzip", "cleanup"}
                     /\ EndsWith(self.url, ".zip")
                     => steps[i].path = InPwd("geckodriver.zip")
              /\ steps[i].op \in {"download_file", "untar", "cleanup"}
                     /\ EndsWith(self.url, ".tar.gz")
                     => steps[i].path = InPwd("geckodriver.tar.gz")
              /\ steps[i].op = "unzip" => EndsWith(self.url, ".zip")
              /\ steps[i].op = "untar" => EndsWith(self.url, ".tar.gz")

C10_Witness ==
    /\ flow = "gecko" /\ os = "Darwin" /\ pc = "done"
    /\ EndsWith(self.url, "macos.tar.gz")
    /\ steps[3] = [op |-> "untar", path |-> "/opt/utilities/geckodriver.tar.gz",
                   raised |-> "none"]

====
